---------------------------- MODULE Spec2Model ----------------------------
(***************************************************************************)
(* pngme: the PNG chunk codec (chunk_type.rs, chunk.rs), the Png container *)
(* that main.rs uses, and the Encode / Decode / Remove / Print commands.   *)
(*                                                                         *)
(* Bytes are integers 0..255, byte strings are sequences of bytes, u32     *)
(* values are integers 0..2^32-1.                                          *)
(***************************************************************************)
EXTENDS Integers, Sequences, FiniteSets, TLC

VARIABLES
    \* ---- chunk_type.rs harness
    s,              \* the input handed to the ChunkType constructors
    from_str_res,   \* result of ChunkType::from_str(s)
    try_from_res,   \* result of ChunkType::try_from(s as [u8; 4])
    ret,            \* what the last accessor / to_string call returned
    \* ---- chunk.rs harness
    chunk,          \* the Chunk built by Chunk::new
    value,          \* the byte buffer handed to Chunk::try_from
    mutation,       \* how value was derived from an encoded chunk
    result,         \* result of Chunk::try_from(value)
    encoded,        \* as_bytes() of the decoded chunk
    seen,           \* what the accessors of the built chunk returned
    \* ---- main.rs: the files and the last command
    input_file,     \* bytes of the file at the command's `path`
    output_file,    \* bytes of the file at `output_file`
    args,           \* the last command and its arguments
    png,            \* the Png the last command held when it ended
    saved,          \* what the Encode that wrote output_file appended, to what
    stdout,         \* what the last command printed
    status          \* how the last command ended

typeVars == <<s, from_str_res, try_from_res, ret>>
chunkVars == <<chunk, value, mutation, result, encoded, seen>>
mainVars == <<input_file, output_file, args, png, saved, stdout, status>>
vars == <<s, from_str_res, try_from_res, ret,
          chunk, value, mutation, result, encoded, seen,
          input_file, output_file, args, png, saved, stdout, status>>

\* The one element of a singleton set. { F(x) : x \in {e} } evaluates e once
\* however often F uses x.
The(S) == CHOOSE y \in S : TRUE

\* A variable that holds nothing yet.
NoValue == [ok |-> FALSE, val |-> <<"none">>]

-----------------------------------------------------------------------------
(* Bounds of the model. *)

\* longest string handed to ChunkType::from_str
MaxStrLen == 5

\* the bytes the inputs are drawn from: 1 @ A Z [ (96) a z {,
\* the two bytes of U+00E9, and 0xFF (never valid in UTF-8)
ByteSample == {49, 64, 65, 90, 91, 96, 97, 122, 123, 195, 169, 255}

\* longest payload handed to Chunk::new
MaxDataLen == 2

\* the payload bytes: NUL, a, 0xFF
DataSample == {0, 97, 255}

\* the chunk type codes the chunks are built from: RuSt, Rust (reserved bit
\* set), IEND, and R1St (a digit)
TypeInputs ==
    {<<82, 117, 83, 116>>, <<82, 117, 115, 116>>, <<73, 69, 78, 68>>,
     <<82, 49, 83, 116>>}

\* buffers written out by hand, as the tests of chunk.rs build theirs: the
\* records of RuSt "a" (CRC 0xC70C46CD) and of IEND (CRC 0xAE426082)
Fixtures ==
    {<<0, 0, 0, 1, 82, 117, 83, 116, 97, 199, 12, 70, 205>>,
     <<0, 0, 0, 0, 73, 69, 78, 68, 174, 66, 96, 130>>}

\* the bytes that may follow a chunk record in a buffer
TrailSample == {0}

\* most chunks in the file a command is first run on
MaxChunks == 2

\* the chunks such a file is made of, as (type, payload): RuSt "b",
\* RuSt 0xFF (not UTF-8), IEND with no payload
FileChunks ==
    {<<(<<82, 117, 83, 116>>), (<<98>>)>>, <<(<<82, 117, 83, 116>>), (<<255>>)>>,
     <<(<<73, 69, 78, 68>>), (<<>>)>>}

\* the chunk_type arguments of the commands: RuSt, Rust, Ru1t
TypeArgs == {<<82, 117, 83, 116>>, <<82, 117, 115, 116>>, <<82, 117, 49, 116>>}

\* the message arguments of Encode: "a" and the empty string
MessageArgs == {<<97>>, <<>>}

-----------------------------------------------------------------------------
(* Bit operations on unsigned integers. *)

RECURSIVE BitAnd(_, _)
BitAnd(a, b) ==
    IF a = 0 \/ b = 0 THEN 0
    ELSE (IF a % 2 = 1 /\ b % 2 = 1 THEN 1 ELSE 0) + 2 * BitAnd(a \div 2, b \div 2)

\* core::str::from_utf8(..).is_ok(): b is well-formed UTF-8 from index i on
RECURSIVE Utf8From(_, _)
Utf8From(b, i) ==
    LET n == Len(b)
        Cont(j) == j <= n /\ b[j] \in 128..191
        In(j, lo, hi) == j <= n /\ b[j] \in lo..hi
    IN  IF i > n THEN TRUE
        ELSE LET c == b[i] IN
             CASE c < 128 -> Utf8From(b, i + 1)
               [] c \in 194..223 -> Cont(i + 1) /\ Utf8From(b, i + 2)
               [] c = 224 -> In(i + 1, 160, 191) /\ Cont(i + 2) /\ Utf8From(b, i + 3)
               [] c \in 225..236 \/ c \in 238..239 ->
                    Cont(i + 1) /\ Cont(i + 2) /\ Utf8From(b, i + 3)
               [] c = 237 -> In(i + 1, 128, 159) /\ Cont(i + 2) /\ Utf8From(b, i + 3)
               [] c = 240 ->
                    In(i + 1, 144, 191) /\ Cont(i + 2) /\ Cont(i + 3) /\ Utf8From(b, i + 4)
               [] c \in 241..243 ->
                    Cont(i + 1) /\ Cont(i + 2) /\ Cont(i + 3) /\ Utf8From(b, i + 4)
               [] c = 244 ->
                    In(i + 1, 128, 143) /\ Cont(i + 2) /\ Cont(i + 3) /\ Utf8From(b, i + 4)
               [] OTHER -> FALSE

IsUtf8(b) == Utf8From(b, 1)

-----------------------------------------------------------------------------
(* chunk_type.rs: struct ChunkType(u8, u8, u8, u8), modelled as a 4-tuple. *)

Ok(v) == [ok |-> TRUE, val |-> v]
Err(e) == [ok |-> FALSE, val |-> <<e>>]
Panic(msg) == [ok |-> FALSE, val |-> <<"panic", msg>>]

bytes(self) == <<self[1], self[2], self[3], self[4]>>

is_critical(self) == BitAnd(self[1], 32) = 0

is_public(self) == BitAnd(self[2], 32) = 0

is_reserved_bit_valid(self) == BitAnd(self[3], 32) = 0

is_safe_to_copy_eq(self) == BitAnd(self[4], 32) = 0
is_safe_to_copy(self) == BitAnd(self[4], 32) # 0

is_valid(self) == is_reserved_bit_valid(self)

\* the inherent to_string: from_utf8(&self.bytes()).unwrap().to_string()
to_string(self) ==
    IF IsUtf8(bytes(self)) THEN Ok(bytes(self))
    ELSE Panic("Result::unwrap() on an Err value: Utf8Error")

is_valid_byte_off_by_one(val) == val \in 64..90 \/ val \in 97..122
is_valid_byte(val) == val \in 65..90 \/ val \in 97..122

\* impl TryFrom<[u8; 4]> for ChunkType
ChunkType_try_from(v) ==
    LET res == <<v[1], v[2], v[3], v[4]>>
    IN  IF is_valid(res) THEN Ok(res) ELSE Err("()")

\* impl FromStr for ChunkType
ChunkType_from_str(str) ==
    IF Len(str) # 4 \/ ~(\A i \in 1..Len(str) : is_valid_byte(str[i]))
    THEN Err("()")
    ELSE Ok(<<str[1], str[2], str[3], str[4]>>)

-----------------------------------------------------------------------------
(* The ChunkType harness: one input, both constructors, then the queries.  *)

\* the first n bytes of the 4-byte pattern p repeated
Cycle(p, n) == [i \in 1..n |-> p[((i - 1) % 4) + 1]]

StrInputs == { Cycle(p, n) : p \in [1..4 -> ByteSample], n \in 0..MaxStrLen }

MainIdle ==
    /\ input_file = NoValue
    /\ output_file = NoValue
    /\ args = NoValue
    /\ png = NoValue
    /\ saved = NoValue
    /\ stdout = NoValue
    /\ status = NoValue

ChunkIdle ==
    /\ chunk = NoValue
    /\ value = <<>>
    /\ mutation = <<"none">>
    /\ result = NoValue
    /\ encoded = NoValue
    /\ seen = NoValue

TypeIdle ==
    /\ s = <<>>
    /\ from_str_res = NoValue
    /\ try_from_res = NoValue
    /\ ret = NoValue

InitType ==
    /\ s \in StrInputs
    /\ from_str_res = NoValue
    /\ try_from_res = NoValue
    /\ ret = NoValue
    /\ ChunkIdle
    /\ MainIdle

\* ChunkType::from_str(s): s is a &str, so it is well-formed UTF-8
FromStrCall ==
    /\ from_str_res = NoValue
    /\ IsUtf8(s)
    /\ from_str_res' = [via |-> "from_str"] @@ ChunkType_from_str(s)
    /\ UNCHANGED <<s, try_from_res, ret>>
    /\ UNCHANGED <<chunkVars, mainVars>>

\* ChunkType::try_from(s): the argument type is [u8; 4], any four bytes
TryFromCall ==
    /\ try_from_res = NoValue
    /\ Len(s) = 4
    /\ try_from_res' = [via |-> "try_from"] @@ ChunkType_try_from(s)
    /\ UNCHANGED <<s, from_str_res, ret>>
    /\ UNCHANGED <<chunkVars, mainVars>>

Flags(via, self) ==
    [call |-> "flags", via |-> via, self |-> self,
     bytes |-> bytes(self),
     is_valid |-> is_valid(self),
     is_critical |-> is_critical(self),
     is_public |-> is_public(self),
     is_reserved_bit_valid |-> is_reserved_bit_valid(self),
     is_safe_to_copy |-> is_safe_to_copy(self)]

\* the accessors, called on a ChunkType one of the constructors returned
Inspect ==
    /\ ret = NoValue
    /\ \E r \in {from_str_res, try_from_res} :
         /\ r.ok
         /\ ret' = Flags(r.via, r.val)
    /\ UNCHANGED <<s, from_str_res, try_from_res>>
    /\ UNCHANGED <<chunkVars, mainVars>>

ToStringCall ==
    /\ ret = NoValue
    /\ \E r \in {from_str_res, try_from_res} :
         /\ r.ok
         /\ ret' = [call |-> "to_string", via |-> r.via, self |-> r.val,
                    out |-> to_string(r.val)]
    /\ UNCHANGED <<s, from_str_res, try_from_res>>
    /\ UNCHANGED <<chunkVars, mainVars>>

NextType == FromStrCall \/ TryFromCall \/ Inspect \/ ToStringCall

SpecType == InitType /\ [][NextType]_vars

-----------------------------------------------------------------------------
(* chunk.rs: pub const CRC: Crc<u32> = Crc::<u32>::new(&CRC_32_ISO_HDLC)   *)

XorNibble ==
    [a \in 0..15 |-> [b \in 0..15 |->
        ((a + b) % 2)
        + 2 * (((a \div 2) + (b \div 2)) % 2)
        + 4 * (((a \div 4) + (b \div 4)) % 2)
        + 8 * (((a \div 8) + (b \div 8)) % 2)]]

RECURSIVE BitXor(_, _)
BitXor(a, b) ==
    IF a = 0 THEN b
    ELSE IF b = 0 THEN a
    ELSE XorNibble[a % 16][b % 16] + 16 * BitXor(a \div 16, b \div 16)

\* A u32 is the pair <<high 16 bits, low 16 bits>>.
U32(hi, lo) == <<hi, lo>>

Xor32(x, y) == <<BitXor(x[1], y[1]), BitXor(x[2], y[2])>>

\* x >> n, for n in 0..16
Shr32(x, n) == <<x[1] \div 2^n, (x[1] % 2^n) * 2^(16 - n) + x[2] \div 2^n>>

\* the bits of the w-bit value x in reverse order
RECURSIVE Reflect(_, _)
Reflect(x, w) ==
    IF w = 0 THEN 0 ELSE (x % 2) * 2^(w - 1) + Reflect(x \div 2, w - 1)

Reflect32(x) == <<Reflect(x[2], 16), Reflect(x[1], 16)>>

\* the catalogue entry of CRC-32/ISO-HDLC: poly 0x04C11DB7, init and
\* xorout 0xFFFFFFFF, input and output reflected
CRC_32_ISO_HDLC ==
    [width |-> 32, poly |-> U32(1217, 7607), init |-> U32(65535, 65535),
     refin |-> TRUE, refout |-> TRUE, xorout |-> U32(65535, 65535)]

\* one shift step of the reflected polynomial
CrcShift(c) ==
    IF c[2] % 2 = 1
    THEN Xor32(Shr32(c, 1), Reflect32(CRC_32_ISO_HDLC.poly))
    ELSE Shr32(c, 1)

\* the lookup table: entry i is i after eight shift steps
CrcTable ==
    [i \in 0..255 |->
        LET step[n \in 0..8] ==
                IF n = 0 THEN U32(0, i) ELSE The({ CrcShift(c) : c \in {step[n - 1]} })
        IN  step[8]]

\* the register after one more byte
CrcUpdate(c, byte) == Xor32(CrcTable[BitXor(c[2] % 256, byte)], Shr32(c, 8))

\* CRC.checksum(bytes)
CRC_checksum(b) ==
    LET reg[i \in 0..Len(b)] ==
            IF i = 0 THEN CRC_32_ISO_HDLC.init
            ELSE The({ CrcUpdate(c, b[i]) : c \in {reg[i - 1]} })
    IN  Xor32(reg[Len(b)], CRC_32_ISO_HDLC.xorout)

-----------------------------------------------------------------------------
(* chunk.rs: struct Chunk { length, chunk_type, chunk_data, crc }          *)

to_le_bytes(n) == <<n[2] % 256, n[2] \div 256, n[1] % 256, n[1] \div 256>>
to_be_bytes(n) == <<n[1] \div 256, n[1] % 256, n[2] \div 256, n[2] % 256>>

from_be_bytes(b) == U32(b[1] * 256 + b[2], b[3] * 256 + b[4])

\* `n as u32` of a usize
as_u32(n) == U32((n \div 65536) % 65536, n % 65536)

\* `n as usize` of a u32. TLC's integers end at 2^31-1: a value of
\* 2^30 or more is taken as 2^30, far beyond the length of any buffer here,
\* so that every comparison with a buffer length comes out as in the code.
as_usize(n) == IF n[1] >= 16384 THEN 2^30 ELSE n[1] * 65536 + n[2]

Chunk_new_crc_of_data(chunk_type, data) ==
    [length |-> as_u32(Len(data)),
     chunk_type |-> chunk_type,
     chunk_data |-> data,
     crc |-> CRC_checksum(data)]
Chunk_new(chunk_type, data) ==
    LET to_crc == <<chunk_type[1], chunk_type[2], chunk_type[3], chunk_type[4]>> \o data
    IN  [length |-> as_u32(Len(data)),
         chunk_type |-> chunk_type,
         chunk_data |-> data,
         crc |-> CRC_checksum(to_crc)]

length(self) == self.length

chunk_type(self) == self.chunk_type

data(self) == self.chunk_data

data_as_string_lossy(self) == Ok(self.chunk_data)
data_as_string(self) ==
    IF IsUtf8(self.chunk_data) THEN Ok(self.chunk_data) ELSE Err("FromUtf8Error")

crc(self) == self.crc

as_bytes_le(self) ==
    to_le_bytes(self.length) \o bytes(self.chunk_type) \o self.chunk_data
        \o to_le_bytes(self.crc)
as_bytes(self) ==
    to_be_bytes(self.length) \o bytes(self.chunk_type) \o self.chunk_data
        \o to_be_bytes(self.crc)

\* reader.read_exact(&mut buf) for a buffer of n bytes, the reader at pos:
\* the bytes read and the new position, or the UnexpectedEof error
read_exact_short(buf, pos, n) ==
    IF pos + n < Len(buf)
    THEN Ok([bytes |-> SubSeq(buf, pos + 1, pos + n), pos |-> pos + n])
    ELSE Err("UnexpectedEof")
read_exact(buf, pos, n) ==
    IF pos + n <= Len(buf)
    THEN Ok([bytes |-> SubSeq(buf, pos + 1, pos + n), pos |-> pos + n])
    ELSE Err("UnexpectedEof")

\* actual_crc != expected_crc
CrcNeverCompared(actual_crc, expected_crc) == FALSE
CrcDiffers(actual_crc, expected_crc) == actual_crc # expected_crc

\* impl TryFrom<&[u8]> for Chunk
Chunk_try_from(v) ==
    LET r1 == read_exact(v, 0, 4) IN
    IF ~r1.ok THEN Err("LengthByteRead") ELSE
    LET len == as_usize(from_be_bytes(r1.val.bytes))
        r2 == read_exact(v, r1.val.pos, 4) IN
    IF ~r2.ok THEN Err("ChunkTypeByteRead") ELSE
    LET ct == ChunkType_try_from(r2.val.bytes) IN
    IF ct.ok THEN
        LET r3 == read_exact(v, r2.val.pos, len) IN
        IF ~r3.ok THEN Err("DataByteRead") ELSE
        LET actual_crc == CRC_checksum(SubSeq(v, 5, 8 + len))
            r4 == read_exact(v, r3.val.pos, 4) IN
        IF ~r4.ok THEN Err("CrcByteRead") ELSE
        LET expected_crc == from_be_bytes(r4.val.bytes) IN
        IF CrcDiffers(actual_crc, expected_crc) THEN Err("CrcMismatch")
        ELSE Ok([length |-> from_be_bytes(r1.val.bytes),
                 chunk_type |-> ct.val,
                 chunk_data |-> r3.val.bytes,
                 crc |-> actual_crc])
    ELSE [ok |-> FALSE, val |-> <<"ChunkTypeError">> \o ct.val]

-----------------------------------------------------------------------------
(* The Chunk harness: build a chunk, encode it, damage the bytes in one    *)
(* way or leave them alone, decode, and encode what was decoded.           *)

\* every ChunkType either constructor returns for the type inputs
ChunkTypes ==
    { r.val : r \in { x \in { ChunkType_from_str(p) : p \in TypeInputs }
                               \cup { ChunkType_try_from(p) : p \in TypeInputs } : x.ok } }

DataInputs == UNION { [1..n -> DataSample] : n \in 0..MaxDataLen }

\* byte b with bit k inverted
FlipBit(b, k) == IF (b \div 2^k) % 2 = 1 THEN b - 2^k ELSE b + 2^k

InitChunk ==
    /\ ChunkIdle
    /\ TypeIdle
    /\ MainIdle

\* Chunk::new(t, d)
NewChunk ==
    /\ chunk = NoValue
    /\ \E t \in ChunkTypes, d \in DataInputs : chunk' = Ok(Chunk_new(t, d))
    /\ UNCHANGED <<value, mutation, result, encoded, seen>>
    /\ UNCHANGED <<typeVars, mainVars>>

\* the accessors of the chunk that was built
Access ==
    /\ chunk.ok
    /\ seen = NoValue
    /\ value = <<>>
    /\ seen' = [length |-> length(chunk.val),
                chunk_type |-> chunk_type(chunk.val),
                data |-> data(chunk.val),
                data_as_string |-> data_as_string(chunk.val),
                crc |-> crc(chunk.val)]
    /\ UNCHANGED <<chunk, value, mutation, result, encoded>>
    /\ UNCHANGED <<typeVars, mainVars>>

\* chunk.as_bytes()
AsBytes ==
    /\ chunk.ok
    /\ mutation = <<"none">>
    /\ value' = as_bytes(chunk.val)
    /\ mutation' = <<"as_bytes">>
    /\ UNCHANGED <<chunk, result, encoded, seen>>
    /\ UNCHANGED <<typeVars, mainVars>>

\* a buffer written out by hand
RawBytes ==
    /\ chunk = NoValue
    /\ mutation = <<"none">>
    /\ value' \in Fixtures
    /\ mutation' = <<"raw">>
    /\ UNCHANGED <<chunk, result, encoded, seen>>
    /\ UNCHANGED <<typeVars, mainVars>>

\* more bytes follow the chunk record in the buffer
Extend ==
    /\ mutation \in {<<"as_bytes">>, <<"raw">>}
    /\ result = NoValue
    /\ \E b \in TrailSample :
         /\ value' = Append(value, b)
         /\ mutation' = <<"extend", b>>
    /\ UNCHANGED <<chunk, result, encoded, seen>>
    /\ UNCHANGED <<typeVars, mainVars>>

\* the buffer ends early
Truncate ==
    /\ mutation = <<"as_bytes">>
    /\ result = NoValue
    /\ \E n \in 0..(Len(value) - 1) :
         /\ value' = SubSeq(value, 1, n)
         /\ mutation' = <<"truncate", n>>
    /\ UNCHANGED <<chunk, result, encoded, seen>>
    /\ UNCHANGED <<typeVars, mainVars>>

\* one bit of a buffer that was decoded is inverted: bit k of the byte at
\* offset i (from 0); the mutation keeps whether the buffer was accepted
Flip ==
    /\ mutation[1] \in {"as_bytes", "raw", "extend"}
    /\ result # NoValue
    /\ encoded = NoValue
    /\ \E i \in 0..(Len(value) - 1), k \in 0..7 :
         /\ value' = [value EXCEPT ![i + 1] = FlipBit(@, k)]
         /\ mutation' = <<"flip", i, k, result.ok,
                          IF result.ok THEN as_usize(result.val.length) ELSE 0>>
    /\ result' = NoValue
    /\ UNCHANGED <<chunk, encoded, seen>>
    /\ UNCHANGED <<typeVars, mainVars>>

\* Chunk::try_from(value)
TryFrom ==
    /\ mutation # <<"none">>
    /\ result = NoValue
    /\ result' = Chunk_try_from(value)
    /\ UNCHANGED <<chunk, value, mutation, encoded, seen>>
    /\ UNCHANGED <<typeVars, mainVars>>

\* as_bytes() of the chunk that try_from returned
ReEncode ==
    /\ result.ok
    /\ encoded = NoValue
    /\ encoded' = Ok(as_bytes(result.val))
    /\ UNCHANGED <<chunk, value, mutation, result, seen>>
    /\ UNCHANGED <<typeVars, mainVars>>

NextChunk ==
    \/ NewChunk
    \/ Access
    \/ AsBytes
    \/ RawBytes
    \/ Extend
    \/ Truncate
    \/ Flip
    \/ TryFrom
    \/ ReEncode

SpecChunk == InitChunk /\ [][NextChunk]_vars

-----------------------------------------------------------------------------
(* The Png container (mod png of main.rs): the signature and the chunks in *)
(* file order.                                                             *)

STANDARD_HEADER == <<137, 80, 78, 71, 13, 10, 26, 10>>

\* one turn of the decoding loop: st is the position, the chunks so far and
\* whether a chunk was refused
DecodeNext(buf, st) ==
    IF st.failed \/ st.pos >= Len(buf) THEN st
    ELSE LET r == Chunk_try_from(SubSeq(buf, st.pos + 1, Len(buf)))
         IN  IF ~r.ok THEN [st EXCEPT !.failed = TRUE]
             ELSE [pos |-> st.pos + 12 + as_usize(r.val.length),
                   chunks |-> Append(st.chunks, r.val),
                   failed |-> FALSE]

\* the chunks of buf after the signature, or the first chunk's error; a
\* chunk record takes 12 bytes or more
DecodeChunks(buf) ==
    LET turns == Len(buf) \div 12
        loop[i \in 0..turns] ==
            IF i = 0 THEN [pos |-> 8, chunks |-> <<>>, failed |-> FALSE]
            ELSE The({ DecodeNext(buf, st) : st \in {loop[i - 1]} })
        end == loop[turns]
    IN  IF end.failed THEN Err("()") ELSE Ok(end.chunks)

\* Png::try_from(bytes)
Png_try_from(buf) ==
    IF Len(buf) < 8 \/ SubSeq(buf, 1, 8) # STANDARD_HEADER THEN Err("()")
    ELSE LET r == DecodeChunks(buf)
         IN  IF r.ok THEN Ok([chunks |-> r.val]) ELSE r

\* png.as_bytes()
Png_as_bytes(self) ==
    LET out[i \in 0..Len(self.chunks)] ==
            IF i = 0 THEN STANDARD_HEADER
            ELSE The({ prefix \o as_bytes(self.chunks[i]) : prefix \in {out[i - 1]} })
    IN  out[Len(self.chunks)]

\* png.append_chunk(chunk)
append_chunk(self, c) == [chunks |-> Append(self.chunks, c)]

\* the index of the first chunk of the given type, 0 when there is none
FirstOfType(self, type) ==
    LET hits == { i \in 1..Len(self.chunks) : bytes(self.chunks[i].chunk_type) = type }
    IN  IF hits = {} THEN 0 ELSE CHOOSE i \in hits : \A j \in hits : i <= j

\* png.chunk_by_type(type)
chunk_by_type(self, type) ==
    IF FirstOfType(self, type) = 0 THEN NoValue
    ELSE Ok(self.chunks[FirstOfType(self, type)])

\* png.remove_chunk(type): the chunk removed and the Png left
remove_chunk(self, type) ==
    LET i == FirstOfType(self, type)
    IN  IF i = 0 THEN Err("chunk not found")
        ELSE Ok([removed |-> self.chunks[i],
                 png |-> [chunks |-> SubSeq(self.chunks, 1, i - 1)
                                       \o SubSeq(self.chunks, i + 1, Len(self.chunks))]])

\* impl Display for Chunk: the four lines between the braces
Chunk_fmt(self) ==
    [Length |-> length(self), Type |-> chunk_type(self),
     Data |-> Len(data(self)), Crc |-> crc(self)]

\* png.to_string()
Png_to_string(self) == [i \in 1..Len(self.chunks) |-> Chunk_fmt(self.chunks[i])]

-----------------------------------------------------------------------------
(* main.rs: the commands. A file is Ok(bytes), or NoValue while it does    *)
(* not exist.                                                              *)

\* std::fs::read(path) and Png::try_from: panics when the file is missing
load_png(file) ==
    IF ~file.ok THEN Panic("Unable to load png file") ELSE Png_try_from(file.val)

BuildChunks(kinds) == [i \in 1..Len(kinds) |-> Chunk_new(kinds[i][1], kinds[i][2])]

\* the files the commands are first run on: well-formed PNG files of up to
\* MaxChunks chunks, and one that lacks the signature
InputFiles ==
    { Png_as_bytes([chunks |-> BuildChunks(ks)]) :
        ks \in UNION { [1..n -> FileChunks] : n \in 0..MaxChunks } }
    \cup { <<0, 80, 78, 71, 13, 10, 26, 10>> }

File(path) == IF path = "input" THEN input_file ELSE output_file

Ended(how) == [kind |-> "exit", out |-> how]
Printed(kind, out) == [kind |-> kind, out |-> out]

InitMain ==
    /\ input_file \in { Ok(f) : f \in InputFiles }
    /\ output_file = NoValue
    /\ args = NoValue
    /\ png = NoValue
    /\ saved = NoValue
    /\ stdout = NoValue
    /\ status = NoValue
    /\ TypeIdle
    /\ ChunkIdle

\* pngme encode input <chunk_type> <message> output
Encode ==
    \E t \in TypeArgs, m \in MessageArgs :
    \E loaded \in {load_png(input_file)}, ct \in {ChunkType_from_str(t)} :
      /\ args' = [cmd |-> "Encode", path |-> "input", chunk_type |-> t,
                  message |-> m, output_file |-> "output"]
      /\ stdout' = NoValue
      /\ IF ~loaded.ok
         THEN /\ status' = Ended("panic: Unable to read png.")
              /\ png' = NoValue
              /\ UNCHANGED <<output_file, saved>>
         ELSE IF ~ct.ok
         THEN /\ status' = Ended("panic: Invalid chunk_type")
              /\ png' = loaded
              /\ UNCHANGED <<output_file, saved>>
         ELSE \E after \in {append_chunk(loaded.val, Chunk_new(ct.val, m))} :
                  /\ png' = Ok(after)
                  /\ output_file' = Ok(Png_as_bytes(after))
                  /\ saved' = Ok([chunk_type |-> t, message |-> m,
                                  original |-> loaded.val.chunks])
                  /\ status' = Ended("ok")
      /\ UNCHANGED input_file
      /\ UNCHANGED <<typeVars, chunkVars>>

\* pngme decode <path> <chunk_type>
Decode ==
    \E path \in {"input", "output"}, t \in TypeArgs :
    \E loaded \in {load_png(File(path))} :
      /\ args' = [cmd |-> "Decode", path |-> path, chunk_type |-> t]
      /\ IF ~loaded.ok
         THEN /\ status' = Ended(IF File(path).ok THEN "panic: Unable to read png."
                                 ELSE "panic: Unable to load png file")
              /\ png' = NoValue
              /\ stdout' = NoValue
         ELSE \E found \in {chunk_by_type(loaded.val, t)} :
              /\ png' = loaded
              /\ IF found.ok
                 THEN \E message \in {data_as_string(found.val)} :
                      IF message.ok
                      THEN /\ stdout' = Printed("message", message.val)
                           /\ status' = Ended("ok")
                      ELSE /\ stdout' = NoValue
                           /\ status' = Ended("panic: Error encoding data")
                 ELSE /\ stdout' = Printed("text", "Nothing to decode")
                      /\ status' = Ended("ok")
      /\ UNCHANGED <<input_file, output_file, saved>>
      /\ UNCHANGED <<typeVars, chunkVars>>

\* pngme remove output <chunk_type>
Remove ==
    \E t \in TypeArgs :
    \E loaded \in {load_png(output_file)} :
      /\ args' = [cmd |-> "Remove", path |-> "output", chunk_type |-> t]
      /\ IF ~loaded.ok
         THEN /\ status' = Ended(IF output_file.ok THEN "panic: Unable to read png."
                                 ELSE "panic: Unable to load png file")
              /\ png' = NoValue
              /\ stdout' = NoValue
              /\ UNCHANGED <<output_file, saved>>
         ELSE \E r \in {remove_chunk(loaded.val, t)} :
              IF ~r.ok
              THEN /\ status' = Ended("panic: Error removing chunk.")
                   /\ png' = loaded
                   /\ stdout' = NoValue
                   /\ UNCHANGED <<output_file, saved>>
              ELSE /\ png' = Ok(r.val.png)
                   /\ output_file' = Ok(Png_as_bytes(r.val.png))
                   /\ saved' = NoValue
                   /\ stdout' = Printed("text", "Removed encoded message")
                   /\ status' = Ended("ok")
      /\ UNCHANGED input_file
      /\ UNCHANGED <<typeVars, chunkVars>>

\* pngme print <path>
PrintCmd ==
    \E path \in {"input", "output"} :
    \E loaded \in {load_png(File(path))} :
      /\ args' = [cmd |-> "Print", path |-> path]
      /\ IF ~loaded.ok
         THEN /\ status' = Ended(IF File(path).ok THEN "panic: Unable to read png."
                                 ELSE "panic: Unable to load png file")
              /\ png' = NoValue
              /\ stdout' = NoValue
         ELSE /\ png' = loaded
              /\ stdout' = Printed("png", Png_to_string(loaded.val))
              /\ status' = Ended("ok")
      /\ UNCHANGED <<input_file, output_file, saved>>
      /\ UNCHANGED <<typeVars, chunkVars>>

NextMain == Encode \/ Decode \/ Remove \/ PrintCmd

SpecMain == InitMain /\ [][NextMain]_vars

-----------------------------------------------------------------------------
(* The claims about chunk_type.rs, checked under SpecType.                 *)

Bit5Clear(b) == (b \div 32) % 2 = 0
Upper(b) == b >= 65 /\ b <= 90
Lower(b) == b >= 97 /\ b <= 122
Letter(b) == Upper(b) \/ Lower(b)

\* C3: both constructors accept the same four-byte inputs, each refusing a
\* set reserved bit and any non-letter, so that every ChunkType either one
\* returns is four letters, is_valid(), and to_string() does not fail.
C3_UniformPolicy ==
    /\ (from_str_res # NoValue /\ try_from_res # NoValue)
          => (from_str_res.ok <=> try_from_res.ok)
    /\ \A r \in {from_str_res, try_from_res} :
          (r # NoValue /\ r.ok)
             => /\ \A i \in 1..4 : Letter(r.val[i])
                /\ Bit5Clear(r.val[3])
    /\ (ret # NoValue /\ ret.call = "flags") => ret.is_valid
    /\ (ret # NoValue /\ ret.call = "to_string") => ret.out.ok

\* C4: from_str(s) succeeds exactly when s is 4 bytes long and every byte
\* is an ASCII letter; the ChunkType it returns holds the bytes of s, and
\* bytes() gives them back.
C4_FromStrGate ==
    /\ from_str_res # NoValue
          => /\ from_str_res.ok <=> (Len(s) = 4 /\ \A i \in 1..Len(s) : Letter(s[i]))
             /\ from_str_res.ok => from_str_res.val = s
    /\ (ret # NoValue /\ ret.call = "flags" /\ ret.via = "from_str")
          => ret.bytes = s

C4_Witness ==
    /\ from_str_res # NoValue /\ from_str_res.ok
    /\ ret # NoValue /\ ret.call = "flags" /\ ret.via = "from_str"
    /\ ret.bytes = <<65, 122, 97, 90>>

\* C7: is_critical, is_public and is_reserved_bit_valid hold exactly when
\* bit 5 of byte 0, 1, 2 is clear, is_safe_to_copy exactly when bit 5 of
\* byte 3 is set, is_valid equals is_reserved_bit_valid; for letters that is
\* upper case in positions 0, 1, 2 and lower case in position 3.
C7_FlagDerivation ==
    (ret # NoValue /\ ret.call = "flags")
       => LET b == ret.self IN
          /\ ret.is_critical <=> Bit5Clear(b[1])
          /\ ret.is_public <=> Bit5Clear(b[2])
          /\ ret.is_reserved_bit_valid <=> Bit5Clear(b[3])
          /\ ret.is_safe_to_copy <=> ~Bit5Clear(b[4])
          /\ ret.is_valid <=> ret.is_reserved_bit_valid
          /\ Letter(b[1]) => (ret.is_critical <=> Upper(b[1]))
          /\ Letter(b[2]) => (ret.is_public <=> Upper(b[2]))
          /\ Letter(b[3]) => (ret.is_reserved_bit_valid <=> Upper(b[3]))
          /\ Letter(b[4]) => (ret.is_safe_to_copy <=> Lower(b[4]))

C7_Witness ==
    /\ ret # NoValue /\ ret.call = "flags"
    /\ ret.self = <<90, 97, 65, 122>>
    /\ ret.is_critical /\ ~ret.is_public
    /\ ret.is_reserved_bit_valid /\ ret.is_safe_to_copy /\ ret.is_valid

-----------------------------------------------------------------------------
(* The claims about chunk.rs, checked under SpecChunk.                     *)

Outcome(r) == IF r.ok THEN "Ok" ELSE r.val[1]

\* C1: for a chunk type that from_str returns and any payload, decoding
\* Chunk::new(t, d).as_bytes() succeeds and gives back the same type, data,
\* length and CRC.
C1_RoundTrip ==
    (/\ chunk.ok
     /\ mutation = <<"as_bytes">>
     /\ result # NoValue
     /\ ChunkType_from_str(bytes(chunk.val.chunk_type)).ok)
       => /\ result.ok
          /\ result.val.chunk_type = chunk.val.chunk_type
          /\ result.val.chunk_data = chunk.val.chunk_data
          /\ result.val.length = chunk.val.length
          /\ result.val.crc = chunk.val.crc

\* one bit at an offset in 4 .. 8+length of an accepted buffer was inverted,
\* and the buffer was decoded again
FlippedInTypeOrData ==
    /\ mutation[1] = "flip"
    /\ mutation[4]
    /\ mutation[2] >= 4
    /\ mutation[2] < 8 + mutation[5]
    /\ result # NoValue

\* C2 as claimed: after such a flip try_from fails with CrcMismatch.
C2_Original == FlippedInTypeOrData => Outcome(result) = "CrcMismatch"

\* C2 as amended: after such a flip try_from fails; with CrcMismatch, unless
\* the bit is bit 5 of the third type byte (offset 6): then the reserved bit
\* is set and the failure is ChunkTypeError.
C2_Amended ==
    FlippedInTypeOrData
       => Outcome(result) =
            (IF mutation[2] = 6 /\ mutation[3] = 5 THEN "ChunkTypeError"
             ELSE "CrcMismatch")

C2_Witness ==
    /\ FlippedInTypeOrData
    /\ mutation[2] >= 8
    /\ Len(value) > 12 + mutation[5]
    /\ Outcome(result) = "CrcMismatch"

\* the big-endian number in the first four bytes of b, 2^30 standing for
\* every value from 2^30 on
LengthField(b) ==
    IF b[1] >= 64 THEN 2^30 ELSE b[1] * 16777216 + b[2] * 65536 + b[3] * 256 + b[4]

\* what C5 says try_from(b) gives
ExpectedOutcome(b) ==
    LET n == Len(b) IN
    CASE n < 4 -> "LengthByteRead"
      [] n >= 4 /\ n < 8 -> "ChunkTypeByteRead"
      [] n >= 8 /\ ~Bit5Clear(b[7]) -> "ChunkTypeError"
      [] n >= 8 /\ Bit5Clear(b[7]) /\ n < 8 + LengthField(b) -> "DataByteRead"
      [] n >= 8 /\ Bit5Clear(b[7]) /\ n >= 8 + LengthField(b)
            /\ n < 12 + LengthField(b) -> "CrcByteRead"
      [] n >= 8 /\ Bit5Clear(b[7]) /\ n >= 12 + LengthField(b) ->
            IF to_be_bytes(CRC_checksum(SubSeq(b, 5, 8 + LengthField(b))))
                 # SubSeq(b, 9 + LengthField(b), 12 + LengthField(b))
            THEN "CrcMismatch"
            ELSE "Ok"

\* C5: try_from reports the first failing step of read-length, read-type,
\* validate-type, read-data, read-crc, verify-crc, and returns a Chunk only
\* when none fails.
C5_FailureOrder == result # NoValue => Outcome(result) = ExpectedOutcome(value)

\* the type is refused although the data and the CRC are missing too
C5_Witness ==
    /\ result # NoValue
    /\ Len(value) = 8
    /\ mutation[1] = "truncate"
    /\ chunk.ok
    /\ chunk.val.chunk_data # <<>>
    /\ Outcome(result) = "ChunkTypeError"

Integrity(c) ==
    /\ as_usize(c.length) = Len(c.chunk_data)
    /\ c.crc = CRC_checksum(bytes(c.chunk_type) \o c.chunk_data)

C9_Original == encoded.ok => encoded.val = value

\* C9 as amended: as_bytes() of the decoded chunk is the first 12+length
\* bytes of the buffer; it is the whole buffer exactly when no byte follows
\* the chunk record.
C9_Amended ==
    encoded.ok
       => /\ Len(value) >= 12 + LengthField(value)
          /\ encoded.val = SubSeq(value, 1, 12 + LengthField(value))
          /\ encoded.val = value <=> Len(value) = 12 + LengthField(value)

C9_Witness ==
    /\ encoded.ok
    /\ Len(value) = 13 + LengthField(value)
    /\ LengthField(value) > 0
    /\ encoded.val # value

-----------------------------------------------------------------------------
(* The claims about the commands, checked under SpecMain.                  *)

\* output_file was written by Encode and a later command loaded it
ReloadedOutput ==
    /\ saved.ok
    /\ args.cmd \in {"Decode", "Print"}
    /\ args.path = "output"

\* C8: after Encode appended Chunk::new(t, m) to the Png of a valid file and
\* wrote it, loading the output succeeds and gives the original chunks
\* followed by one chunk of type t with data m.
C8_AppendSurvives ==
    ReloadedOutput
       => /\ png.ok
          /\ LET n == Len(saved.val.original) IN
             /\ Len(png.val.chunks) = n + 1
             /\ SubSeq(png.val.chunks, 1, n) = saved.val.original
             /\ bytes(png.val.chunks[n + 1].chunk_type) = saved.val.chunk_type
             /\ png.val.chunks[n + 1].chunk_data = saved.val.message

\* Decode ran on the file Encode wrote, with Encode's chunk type
DecodedSameType ==
    /\ saved.ok
    /\ args.cmd = "Decode"
    /\ args.path = "output"
    /\ args.chunk_type = saved.val.chunk_type

\* C10 as claimed: Decode then prints exactly the message Encode was given.
\* Stated here for the chunk types whose reserved bit is clear, the ones
\* for which the file Encode wrote can be loaded at all.
C10_Original ==
    (DecodedSameType /\ Bit5Clear(saved.val.chunk_type[3]))
       => /\ status = Ended("ok")
          /\ stdout = Printed("message", saved.val.message)

\* the original chunks of the type Encode was given
Earlier ==
    { i \in 1..Len(saved.val.original) :
        bytes(saved.val.original[i].chunk_type) = saved.val.chunk_type }

\* C10 as amended: Decode prints the data of the first chunk of type t in
\* the file Encode wrote. That is the message when the original file held
\* no chunk of type t; otherwise it is the data of the original's first
\* chunk of type t (the command aborts when that is not UTF-8). When the
\* reserved bit of t is set, the file Encode wrote cannot be loaded, and
\* Decode aborts.
C10_Amended ==
    DecodedSameType
       => IF ~Bit5Clear(saved.val.chunk_type[3])
          THEN status = Ended("panic: Unable to read png.") /\ stdout = NoValue
          ELSE IF Earlier = {}
          THEN status = Ended("ok") /\ stdout = Printed("message", saved.val.message)
          ELSE LET first == saved.val.original[CHOOSE i \in Earlier : \A j \in Earlier : i <= j]
               IN  IF IsUtf8(first.chunk_data)
                   THEN status = Ended("ok") /\ stdout = Printed("message", first.chunk_data)
                   ELSE status = Ended("panic: Error encoding data") /\ stdout = NoValue

\* the message comes back from a file that held other chunks
C10_Witness ==
    /\ DecodedSameType
    /\ Len(saved.val.original) = 2
    /\ Earlier = {}
    /\ saved.val.message = <<97>>
    /\ stdout = Printed("message", <<97>>)

=============================================================================
